---- MODULE Spec2Model ----
(***************************************************************************)
(* State-machine model of src/src/App.vue: the pip mirror command          *)
(* generator.  The reactive refs of the component are the variables, every *)
(* event handler is one action, computed values are operators.  Strings    *)
(* are TLA+ strings; JSON encoding and decoding of the history and the     *)
(* string form of the theme flag are computed character by character.      *)
(***************************************************************************)
EXTENDS Integers, Sequences, FiniteSets, Bags, TLC

VARIABLES
    packageName,      \* ref packageName (v-model of the input)
    showCopyMessage,  \* ref showCopyMessage
    usedPackages,     \* ref usedPackages: the history, a sequence of strings
    isDarkMode,       \* ref isDarkMode
    showSuggestions,  \* ref showSuggestions
    selectedIndex,    \* ref selectedIndex (0-based, -1 = none)
    localStorage,     \* browser storage: key -> <<>> (absent) or <<string>>
    bodyDarkMode,     \* document.body carries the class 'dark-mode'
    mountPhase,       \* "setup" before onMounted ran, then "mounted" or "failed"
    pendingWrites,    \* bag of clipboard texts whose writeText promise is pending
    copyTimers,       \* pending 2000 ms timers that hide the copy message
    focused,          \* the input element has the focus
    lastEvent,        \* history variable: the handler that ran last (one name for the
                      \* events of the input element, but for an Enter that commits)
    loadedTheme,      \* history variable: <<isDarkMode, stored darkMode>> after mount
    toggles,          \* history variable: toggleTheme calls since mount
    gestures,         \* history variable: copy clicks, deletes and toggles since mount
    downStart,        \* history variable: selectedIndex before the current run of ArrowDown
    downRun           \* history variable: length of the current run of ArrowDown

vars == <<packageName, showCopyMessage, usedPackages, isDarkMode, showSuggestions,
          selectedIndex, localStorage, bodyDarkMode, mountPhase, pendingWrites,
          copyTimers, focused, lastEvent, loadedTheme, toggles,
          gestures, downStart, downRun>>

(***************************************************************************)
(* Bounds of the model.                                                    *)
(***************************************************************************)
MaxGestures == 1    \* copy clicks, deletes and theme toggles of a session of Spec
MaxSessionGestures == 2  \* the same, of a session of SessionSpec
MaxDownRun == 3     \* longest run of consecutive ArrowDown presses explored

(***************************************************************************)
(* Values.                                                                 *)
(***************************************************************************)
\* JavaScript's undefined, which suggestions.value[i] yields for i out of range.
undefined == "<undefined>"

defaultPackages == <<"pandas", "numpy", "requests", "pillow", "flask">>

\* name holds an ASCII tag in place of the display label, which no handler reads.
mirrors == <<
    [url |-> "https://mirrors.aliyun.com/pypi/simple", name |-> "aliyun"],
    [url |-> "https://pypi.mirrors.ustc.edu.cn/simple", name |-> "ustc"],
    [url |-> "https://mirrors.cloud.tencent.com/pypi/simple/", name |-> "tencent"],
    [url |-> "https://mirror.sjtu.edu.cn/pypi/web/simple/", name |-> "sjtu"] >>

\* Texts the user types into the input (the value v-model stores on an input event).
TypedTexts == {"", "num", "p", "NUM"}

\* The texts typed in the sessions of SessionSpec.
SessionTexts == {"", "num"}

\* The mirrors whose copy button is clicked: the first and the last.
ClickedMirrors == {1, Len(mirrors)}

\* Keys delivered to handleKeydown; "a" stands for every key the switch ignores.
Keys == {"ArrowDown", "ArrowUp", "Enter", "Escape", "a"}

\* A history a previous session may have left in storage.
PersistedHistory == <<"num", "pandas", "numpy">>

\* A stored text JSON.parse rejects (a truncated array).
CorruptStored == "[\"pandas\",\"num"

(***************************************************************************)
(* String helpers: what the JavaScript built-ins compute.                  *)
(***************************************************************************)
UpperLetters == "ABCDEFGHIJKLMNOPQRSTUVWXYZ"
LowerLetters == "abcdefghijklmnopqrstuvwxyz"

CharAt(s, i) == SubSeq(s, i, i)

\* the lower-case letter of every upper-case letter
LowerOf == [c \in {CharAt(UpperLetters, i) : i \in 1..26} |->
               CharAt(LowerLetters, CHOOSE i \in 1..26 : CharAt(UpperLetters, i) = c)]

toLowerChar(c) == IF c \in DOMAIN LowerOf THEN LowerOf[c] ELSE c

RECURSIVE lowerCased(_)
\* String.prototype.toLowerCase, letter by letter
lowerCased(s) ==
    IF s = "" THEN "" ELSE toLowerChar(CharAt(s, 1)) \o lowerCased(SubSeq(s, 2, Len(s)))

\* the texts of the model: what is typed, seeded or found in storage
KnownTexts ==
    TypedTexts \cup SessionTexts \cup {defaultPackages[i] : i \in 1..Len(defaultPackages)}
        \cup {PersistedHistory[i] : i \in 1..Len(PersistedHistory)}

\* lowerCased of the texts of the model, computed once
LowerCasedKnown == [s \in KnownTexts |-> lowerCased(s)]

toLowerCase(s) == IF s \in KnownTexts THEN LowerCasedKnown[s] ELSE lowerCased(s)

\* String.prototype.includes
includes(s, sub) ==
    \E i \in 0..(Len(s) - Len(sub)) : SubSeq(s, i + 1, i + Len(sub)) = sub

\* Array.prototype.includes on an array of strings
arrayIncludes(arr, x) == \E i \in 1..Len(arr) : arr[i] = x

\* JavaScript truthiness of a string-or-undefined value
truthy(s) == s # "" /\ s # undefined

\* String(b) for a boolean, as localStorage.setItem stores it
boolToString(b) == IF b THEN "true" ELSE "false"

RECURSIVE filterSeq(_, _)
\* Array.prototype.filter with the predicate given as the set of kept values
filterSeq(arr, keep) ==
    IF arr = <<>> THEN <<>>
    ELSE IF Head(arr) \in keep THEN <<Head(arr)>> \o filterSeq(Tail(arr), keep)
    ELSE filterSeq(Tail(arr), keep)

SeqRange(arr) == {arr[i] : i \in 1..Len(arr)}

(***************************************************************************)
(* JSON.stringify / JSON.parse on arrays of strings.  The package names of *)
(* the model hold no character JSON escapes.                               *)
(***************************************************************************)
Quote == "\""

RECURSIVE joinQuoted(_)
joinQuoted(arr) ==
    IF arr = <<>> THEN ""
    ELSE IF Len(arr) = 1 THEN Quote \o arr[1] \o Quote
    ELSE Quote \o arr[1] \o Quote \o "," \o joinQuoted(Tail(arr))

JSONstringify(arr) == "[" \o joinQuoted(arr) \o "]"

\* Position of the first Quote of s at or after position i, 0 when there is none.
RECURSIVE nextQuote(_, _)
nextQuote(s, i) ==
    IF i > Len(s) THEN 0
    ELSE IF CharAt(s, i) = Quote THEN i
    ELSE nextQuote(s, i + 1)

ParseError == [ok |-> FALSE, value |-> <<>>]

\* Parses the elements of an array from position i of s, acc being those read so far.
RECURSIVE parseElements(_, _, _)
parseElements(s, i, acc) ==
    IF i > Len(s) \/ CharAt(s, i) # Quote THEN ParseError
    ELSE LET j == nextQuote(s, i + 1) IN
         IF j = 0 THEN ParseError
         ELSE LET got == Append(acc, SubSeq(s, i + 1, j - 1)) IN
              IF j + 1 > Len(s) THEN ParseError
              ELSE IF CharAt(s, j + 1) = "]"
                   THEN (IF j + 1 = Len(s) THEN [ok |-> TRUE, value |-> got] ELSE ParseError)
              ELSE IF CharAt(s, j + 1) = "," THEN parseElements(s, j + 2, got)
              ELSE ParseError

\* JSON.parse restricted to arrays of strings; ok = FALSE where JSON.parse throws.
JSONparse(s) ==
    IF Len(s) < 2 \/ CharAt(s, 1) # "[" THEN ParseError
    ELSE IF s = "[]" THEN [ok |-> TRUE, value |-> <<>>]
    ELSE parseElements(s, 2, <<>>)

(***************************************************************************)
(* localStorage.                                                           *)
(***************************************************************************)
getItem(store, key) == store[key]
setItem(store, key, value) == [store EXCEPT ![key] = <<value>>]
\* storedTruthy that also takes a stored empty array for nothing stored
storedTruthyNonEmptyArray(item) == item # <<>> /\ item[1] # "" /\ item[1] # "[]"

\* `if (stored)`: a stored value that is neither null nor the empty string
storedTruthy(item) == item # <<>> /\ item[1] # ""

(***************************************************************************)
(* Computed values.                                                        *)
(***************************************************************************)
\* suggestionsOf without the toLowerCase calls
suggestionsOfCaseSensitive(text, history) ==
    IF ~truthy(text) THEN <<>>
    ELSE filterSeq(history, {pkg \in SeqRange(history) : includes(pkg, text) /\ pkg # text})

\* computed suggestions, as a function of the input text and the history
suggestionsOf(text, history) ==
    IF ~truthy(text) THEN <<>>
    ELSE filterSeq(history,
                   {pkg \in SeqRange(history) :
                        includes(toLowerCase(pkg), toLowerCase(text)) /\ pkg # text})

suggestions == suggestionsOf(packageName, usedPackages)

\* generateCommandFor without the blank between the URL and the package name
generateCommandForNoBlank(mirror, name) ==
    IF ~truthy(name) THEN "" ELSE "pip install -i " \o mirror.url \o name

generateCommandFor(mirror, name) ==
    IF ~truthy(name) THEN "" ELSE "pip install -i " \o mirror.url \o " " \o name

generateCommand(mirror) == generateCommandFor(mirror, packageName)

\* the commands the template renders: v-for="mirror in mirrors", one per mirror
commands == [m \in 1..Len(mirrors) |-> generateCommand(mirrors[m])]

(***************************************************************************)
(* Pure parts of the handlers.                                             *)
(***************************************************************************)
\* arrowDownIndex with the index clamped at the last entry instead of wrapped
arrowDownIndexClamped(index, length) == IF index + 1 < length THEN index + 1 ELSE length - 1

\* ArrowDown: (selectedIndex + 1) % suggestions.length
arrowDownIndex(index, length) == (index + 1) % length

\* ArrowUp: selectedIndex <= 0 ? suggestions.length - 1 : selectedIndex - 1
arrowUpIndex(index, length) == IF index <= 0 THEN length - 1 ELSE index - 1

\* suggestionAt reading one entry too far
suggestionAtOffByOne(list, i) == IF i >= 0 /\ i + 1 < Len(list) THEN list[i + 2] ELSE undefined

\* suggestions.value[i] for a 0-based i: undefined when i is out of range
suggestionAt(list, i) == IF i >= 0 /\ i < Len(list) THEN list[i + 1] ELSE undefined

\* savePackageHistory moving a package already present to the front
savePackageHistoryMoveToFront(pkg, history) ==
    IF ~truthy(pkg) THEN history
    ELSE <<pkg>> \o filterSeq(history, SeqRange(history) \ {pkg})

\* savePackageHistory without the includes() test
savePackageHistoryNoCheck(pkg, history) == IF ~truthy(pkg) THEN history ELSE <<pkg>> \o history

\* savePackage: the history it leaves (the early return keeps it)
savePackageHistory(pkg, history) ==
    IF ~truthy(pkg) \/ arrayIncludes(history, pkg) THEN history ELSE <<pkg>> \o history

\* savePackageStorage without the setItem call
savePackageStorageStale(pkg, history, store) == store

\* savePackage: the storage it leaves (written only when the package is added)
savePackageStorage(pkg, history, store) ==
    IF ~truthy(pkg) \/ arrayIncludes(history, pkg) THEN store
    ELSE setItem(store, "usedPackages", JSONstringify(<<pkg>> \o history))

\* deletePackage: usedPackages.filter(p => p !== pkg)
deletePackageHistory(pkg, history) == filterSeq(history, SeqRange(history) \ {pkg})

\* toggledTheme switching dark mode on whatever it was
toggledThemeAlwaysDark(dark) == TRUE

\* loadThemePreference: stored === 'true'
themeFromStored(item) == item = <<"true">>

\* toggleTheme: the flipped flag
toggledTheme(dark) == ~dark

(***************************************************************************)
(* Initial state: the refs as setup() creates them, storage as an earlier  *)
(* session (or nobody) left it.                                            *)
(***************************************************************************)
\* What an earlier session, or nobody, left in storage: each is a pair of the
\* values under the keys usedPackages and darkMode.
StoredSnapshots == {
    [usedPackages |-> <<>>, darkMode |-> <<>>],
    [usedPackages |-> <<JSONstringify(<<>>)>>, darkMode |-> <<"false">>],
    [usedPackages |-> <<JSONstringify(PersistedHistory)>>, darkMode |-> <<"true">>],
    [usedPackages |-> <<"">>, darkMode |-> <<>>],
    [usedPackages |-> <<CorruptStored>>, darkMode |-> <<"true">>] }

Init ==
    /\ packageName = ""
    /\ showCopyMessage = FALSE
    /\ usedPackages = <<>>
    /\ isDarkMode = FALSE
    /\ showSuggestions = FALSE
    /\ selectedIndex = -1
    /\ localStorage \in StoredSnapshots
    /\ bodyDarkMode = FALSE
    /\ mountPhase = "setup"
    /\ pendingWrites = EmptyBag
    /\ copyTimers = 0
    /\ focused = FALSE
    /\ lastEvent = "setup"
    /\ loadedTheme = <<FALSE, <<>>>>
    /\ toggles = 0
    /\ gestures = 0
    /\ downStart = -1
    /\ downRun = 0

\* The component is rendered and its handlers are attached.
Live == mountPhase \in {"mounted", "failed"}

\* Every handler but ArrowDown ends the current run of ArrowDown presses.
EndRun == downStart' = -1 /\ downRun' = 0

(***************************************************************************)
(* onMounted: loadUsedPackages(), then loadThemePreference().  An exception *)
(* of JSON.parse leaves the hook before the theme is loaded.               *)
(***************************************************************************)
onMounted ==
    /\ mountPhase = "setup"
    /\ LET stored == getItem(localStorage, "usedPackages")
           parsed == IF storedTruthy(stored) THEN JSONparse(stored[1]) ELSE ParseError
           thrown == storedTruthy(stored) /\ ~parsed.ok
           seeded == setItem(localStorage, "usedPackages", JSONstringify(defaultPackages))
           store  == IF storedTruthy(stored) THEN localStorage ELSE seeded
           dark   == themeFromStored(getItem(store, "darkMode"))
       IN  IF thrown
           THEN /\ mountPhase' = "failed"
                /\ UNCHANGED <<usedPackages, localStorage, isDarkMode, bodyDarkMode,
                               loadedTheme>>
           ELSE /\ mountPhase' = "mounted"
                /\ usedPackages' = IF storedTruthy(stored) THEN parsed.value
                                   ELSE defaultPackages
                /\ localStorage' = store
                /\ isDarkMode' = dark
                /\ bodyDarkMode' = dark
                /\ loadedTheme' = <<dark, getItem(store, "darkMode")>>
    /\ lastEvent' = "onMounted"
    /\ EndRun
    /\ UNCHANGED <<packageName, showCopyMessage, showSuggestions, selectedIndex,
                   pendingWrites, copyTimers, focused, toggles, gestures>>

(***************************************************************************)
(* The input element: focus, blur, input and keydown.                      *)
(***************************************************************************)
\* @focus="$event.target.select()": no state of the component changes
onFocus ==
    /\ Live /\ ~focused
    /\ focused' = TRUE
    /\ lastEvent' = "inputElement"
    /\ EndRun
    /\ UNCHANGED <<packageName, showCopyMessage, usedPackages, isDarkMode,
                   showSuggestions, selectedIndex, localStorage, bodyDarkMode,
                   mountPhase, pendingWrites, copyTimers, loadedTheme,
                   toggles, gestures>>

\* @blur="setTimeout(() => showSuggestions = false, 200)": the compiled handler
\* calls _ctx.setTimeout, which the component instance does not have, so the
\* call throws a TypeError that Vue logs; no timer is scheduled and no ref
\* changes.  Only the focus is lost.
onBlur ==
    /\ Live /\ focused
    /\ focused' = FALSE
    /\ lastEvent' = "inputElement"
    /\ EndRun
    /\ UNCHANGED <<packageName, showCopyMessage, usedPackages, isDarkMode,
                   showSuggestions, selectedIndex, localStorage, bodyDarkMode,
                   mountPhase, pendingWrites, copyTimers, loadedTheme, toggles,
                   gestures>>

\* an input event: v-model stores the text the input holds, then handleInput
\* runs; the text may be the one it held before (typed over the selection)
handleInput(text) ==
    /\ Live /\ focused
    /\ packageName' = text
    /\ selectedIndex' = -1
    /\ showSuggestions' = TRUE
    /\ lastEvent' = "inputElement"
    /\ EndRun
    /\ UNCHANGED <<showCopyMessage, usedPackages, isDarkMode, localStorage,
                   bodyDarkMode, mountPhase, pendingWrites, copyTimers, focused,
                   loadedTheme, toggles, gestures>>

handleKeydown(key) ==
    /\ Live /\ focused
    /\ LET list == suggestions
           n == Len(list)
       IN  /\ selectedIndex' =
                IF n = 0 THEN selectedIndex
                ELSE IF key = "ArrowDown" THEN arrowDownIndex(selectedIndex, n)
                ELSE IF key = "ArrowUp" THEN arrowUpIndex(selectedIndex, n)
                ELSE selectedIndex
           /\ packageName' =
                IF n # 0 /\ key = "Enter" /\ selectedIndex >= 0
                THEN suggestionAt(list, selectedIndex)
                ELSE packageName
           /\ showSuggestions' =
                IF n # 0 /\ key = "Enter" /\ selectedIndex >= 0 THEN FALSE
                ELSE IF n # 0 /\ key = "Escape" THEN FALSE
                ELSE showSuggestions
           /\ IF n # 0 /\ key = "ArrowDown"
              THEN /\ downStart' = IF downRun = 0 THEN selectedIndex ELSE downStart
                   /\ downRun' = downRun + 1
              ELSE EndRun
    /\ lastEvent' = IF Len(suggestions) # 0 /\ key = "Enter" /\ selectedIndex >= 0
                    THEN "enterCommit" ELSE "inputElement"
    /\ UNCHANGED <<showCopyMessage, usedPackages, isDarkMode, localStorage,
                   bodyDarkMode, mountPhase, pendingWrites, copyTimers, focused,
                   loadedTheme, toggles, gestures>>

\* a click on the i-th rendered suggestion (v-if="showSuggestions && suggestions.length")
selectSuggestion(i) ==
    /\ Live /\ ~focused
    /\ showSuggestions
    /\ i \in 1..Len(suggestions)
    /\ packageName' = suggestions[i]
    /\ showSuggestions' = FALSE
    /\ lastEvent' = "selectSuggestion"
    /\ EndRun
    /\ UNCHANGED <<showCopyMessage, usedPackages, isDarkMode, selectedIndex,
                   localStorage, bodyDarkMode, mountPhase, pendingWrites, copyTimers,
                   focused, loadedTheme, toggles, gestures>>

(***************************************************************************)
(* The history tags.                                                       *)
(***************************************************************************)
selectPackage(pkg) ==
    /\ Live /\ ~focused
    /\ arrayIncludes(usedPackages, pkg)
    /\ packageName' = pkg
    /\ lastEvent' = "selectPackage"
    /\ EndRun
    /\ UNCHANGED <<showCopyMessage, usedPackages, isDarkMode, showSuggestions,
                   selectedIndex, localStorage, bodyDarkMode, mountPhase,
                   pendingWrites, copyTimers, focused, loadedTheme,
                   toggles, gestures>>

deletePackage(pkg) ==
    /\ Live /\ ~focused
    /\ arrayIncludes(usedPackages, pkg)
    /\ usedPackages' = deletePackageHistory(pkg, usedPackages)
    /\ localStorage' = setItem(localStorage, "usedPackages",
                               JSONstringify(deletePackageHistory(pkg, usedPackages)))
    /\ gestures' = gestures + 1
    /\ lastEvent' = "deletePackage"
    /\ EndRun
    /\ UNCHANGED <<packageName, showCopyMessage, isDarkMode, showSuggestions,
                   selectedIndex, bodyDarkMode, mountPhase, pendingWrites, copyTimers,
                   focused, loadedTheme, toggles>>

(***************************************************************************)
(* copyToClipboard: the call up to the await, and the two continuations.   *)
(***************************************************************************)
\* a click on the copy button of mirror m (rendered under v-if="packageName")
copyToClipboard(m) ==
    /\ Live /\ ~focused
    /\ truthy(packageName)
    /\ gestures' = gestures + 1
    /\ pendingWrites' = pendingWrites (+) SetToBag({generateCommand(mirrors[m])})
    /\ lastEvent' = "copyToClipboard"
    /\ EndRun
    /\ UNCHANGED <<packageName, showCopyMessage, usedPackages, isDarkMode,
                   showSuggestions, selectedIndex, localStorage, bodyDarkMode,
                   mountPhase, copyTimers, focused, loadedTheme, toggles>>

\* writeText(text) resolved: savePackage, show the message, schedule its timer
clipboardResolved(text) ==
    /\ BagIn(text, pendingWrites)
    /\ pendingWrites' = pendingWrites (-) SetToBag({text})
    /\ usedPackages' = savePackageHistory(packageName, usedPackages)
    /\ localStorage' = savePackageStorage(packageName, usedPackages, localStorage)
    /\ showCopyMessage' = TRUE
    /\ copyTimers' = copyTimers + 1
    /\ lastEvent' = "clipboardResolved"
    /\ EndRun
    /\ UNCHANGED <<packageName, isDarkMode, showSuggestions, selectedIndex,
                   bodyDarkMode, mountPhase, focused, loadedTheme,
                   toggles, gestures>>

\* clipboardRejected showing the message and scheduling its timer all the same
clipboardRejectedShowsMessage(text) ==
    /\ BagIn(text, pendingWrites)
    /\ pendingWrites' = pendingWrites (-) SetToBag({text})
    /\ showCopyMessage' = TRUE
    /\ copyTimers' = copyTimers + 1
    /\ lastEvent' = "clipboardRejected"
    /\ EndRun
    /\ UNCHANGED <<packageName, usedPackages, isDarkMode, showSuggestions,
                   selectedIndex, localStorage, bodyDarkMode, mountPhase, focused,
                   loadedTheme, toggles, gestures>>

\* writeText(text) rejected: the catch block logs and changes nothing
clipboardRejected(text) ==
    /\ BagIn(text, pendingWrites)
    /\ pendingWrites' = pendingWrites (-) SetToBag({text})
    /\ lastEvent' = "clipboardRejected"
    /\ EndRun
    /\ UNCHANGED <<packageName, showCopyMessage, usedPackages, isDarkMode,
                   showSuggestions, selectedIndex, localStorage, bodyDarkMode,
                   mountPhase, copyTimers, focused, loadedTheme, toggles,
                   gestures>>

\* copyMessageTimeout leaving the message on the screen
copyMessageTimeoutKeepsMessage ==
    /\ copyTimers > 0
    /\ copyTimers' = copyTimers - 1
    /\ lastEvent' = "copyMessageTimeout"
    /\ EndRun
    /\ UNCHANGED <<packageName, showCopyMessage, usedPackages, isDarkMode,
                   showSuggestions, selectedIndex, localStorage, bodyDarkMode,
                   mountPhase, pendingWrites, focused, loadedTheme,
                   toggles, gestures>>

\* the callback of a notification timer; the timers have one delay, so the one
\* that fires is the earliest scheduled of those pending
copyMessageTimeout ==
    /\ copyTimers > 0
    /\ copyTimers' = copyTimers - 1
    /\ showCopyMessage' = FALSE
    /\ lastEvent' = "copyMessageTimeout"
    /\ EndRun
    /\ UNCHANGED <<packageName, usedPackages, isDarkMode, showSuggestions,
                   selectedIndex, localStorage, bodyDarkMode, mountPhase,
                   pendingWrites, focused, loadedTheme, toggles, gestures>>

(***************************************************************************)
(* toggleTheme, with applyTheme.                                           *)
(***************************************************************************)
toggleTheme ==
    /\ Live /\ ~focused
    /\ gestures' = gestures + 1
    /\ isDarkMode' = toggledTheme(isDarkMode)
    /\ localStorage' = setItem(localStorage, "darkMode",
                               boolToString(toggledTheme(isDarkMode)))
    /\ bodyDarkMode' = toggledTheme(isDarkMode)
    /\ toggles' = toggles + 1
    /\ lastEvent' = "toggleTheme"
    /\ EndRun
    /\ UNCHANGED <<packageName, showCopyMessage, usedPackages, showSuggestions,
                   selectedIndex, mountPhase, pendingWrites, copyTimers, focused,
                   loadedTheme>>

PendingTexts == BagToSet(pendingWrites)

(***************************************************************************)
(* The environment: which events arrive.  Runs of ArrowDown presses are     *)
(* capped, and a session holds a bounded number of copy clicks,            *)
(* deletes and theme toggles.  Two environments are explored: Spec types   *)
(* every text of TypedTexts and makes up to MaxGestures such gestures;     *)
(* SessionSpec types the texts of SessionTexts and makes up to             *)
(* MaxSessionGestures of them.                                             *)
(***************************************************************************)
Events(texts, budget) ==
    \/ onMounted
    \/ onFocus
    \/ onBlur
    \/ \E text \in texts : handleInput(text)
    \/ \E key \in Keys : (key = "ArrowDown" => downRun < MaxDownRun) /\ handleKeydown(key)
    \/ \E i \in 1..Len(suggestions) : selectSuggestion(i)
    \/ \E pkg \in SeqRange(usedPackages) : selectPackage(pkg)
    \/ gestures < budget /\ \E pkg \in SeqRange(usedPackages) : deletePackage(pkg)
    \/ gestures < budget /\ \E m \in ClickedMirrors : copyToClipboard(m)
    \/ \E text \in PendingTexts : clipboardResolved(text)
    \/ \E text \in PendingTexts : clipboardRejected(text)
    \/ copyMessageTimeout
    \/ gestures < budget /\ toggleTheme

Next == Events(TypedTexts, MaxGestures)

Spec == Init /\ [][Next]_vars

SessionNext == Events(SessionTexts, MaxSessionGestures)

SessionSpec == Init /\ [][SessionNext]_vars

\* The sessions of SessionSpec, with the guarantee setTimeout gives: a timer that
\* is pending fires.
TimerSpec == Init /\ [][SessionNext]_vars /\ WF_vars(copyMessageTimeout)

(***************************************************************************)
(* Properties.                                                             *)
(***************************************************************************)
\* The list is rendered: v-if="showSuggestions && suggestions.length"
ListVisible == showSuggestions /\ Len(suggestions) # 0

\* The state right after a fresh load (nothing persisted) and typing "num".
FreshNum ==
    /\ mountPhase = "mounted"
    /\ usedPackages = <<"pandas", "numpy", "requests", "pillow", "flask">>
    /\ packageName = "num"
    /\ focused

\* C1 as stated: after a fresh load, typing "num" opens the list, which holds
\* exactly ["numpy"], and pressing Enter with no arrow key pressed since the
\* typing (the selected index is still -1) makes the input "numpy" and closes
\* the list.
C1_EnterSelectsWithoutArrow ==
    [][ /\ (mountPhase = "mounted" /\ usedPackages = defaultPackages /\ handleInput("num"))
            => showSuggestions'
        /\ FreshNum => suggestions = <<"numpy">>
        /\ (FreshNum /\ selectedIndex = -1 /\ handleKeydown("Enter"))
            => (packageName' = "numpy" /\ ~showSuggestions')
      ]_vars

\* C1 as amended: after a fresh load, typing "num" opens the list, which holds
\* exactly ["numpy"], with nothing selected (index -1); Enter pressed then
\* changes neither the input nor the list; one ArrowDown selects index 0, and
\* Enter pressed then makes the input "numpy" and closes the list.
C1_EnterSelectsAfterArrowDown ==
    [][ /\ (mountPhase = "mounted" /\ usedPackages = defaultPackages /\ handleInput("num"))
            => (showSuggestions' /\ selectedIndex' = -1)
        /\ FreshNum => suggestions = <<"numpy">>
        /\ (FreshNum /\ selectedIndex = -1 /\ handleKeydown("Enter"))
            => UNCHANGED <<packageName, showSuggestions, selectedIndex>>
        /\ (FreshNum /\ selectedIndex = -1 /\ handleKeydown("ArrowDown"))
            => (selectedIndex' = 0 /\ UNCHANGED <<packageName, showSuggestions>>)
        /\ (FreshNum /\ selectedIndex = 0 /\ handleKeydown("Enter"))
            => (packageName' = "numpy" /\ ~showSuggestions')
      ]_vars

\* C1 witness: the fresh history, "num" typed, ArrowDown and Enter pressed: the
\* commit has put "numpy" into the input and closed the list.
C1_Witness ==
    /\ lastEvent = "enterCommit"
    /\ mountPhase = "mounted"
    /\ usedPackages = defaultPackages
    /\ packageName = "numpy"
    /\ selectedIndex = 0
    /\ ~showSuggestions

\* C2: a corrupt value under usedPackages is tolerated by the mount: the
\* history becomes the default seed list, no exception leaves the hook, and
\* the theme preference is still loaded and applied.
C2_CorruptHistoryTolerated ==
    [][ (mountPhase = "setup" /\ getItem(localStorage, "usedPackages") = <<CorruptStored>>
            /\ onMounted)
        => /\ mountPhase' = "mounted"
           /\ usedPackages' = <<"pandas", "numpy", "requests", "pillow", "flask">>
           /\ isDarkMode' = (getItem(localStorage, "darkMode") = <<"true">>)
           /\ bodyDarkMode' = isDarkMode'
      ]_vars

NoDuplicates(arr) == \A i, j \in 1..Len(arr) : i # j => arr[i] # arr[j]

\* C3: the history never holds a package name twice, whatever the typing, tag
\* selections, copy requests (several writes pending, resolving in any order)
\* and deletes.
C3_HistoryHasNoDuplicates == NoDuplicates(usedPackages)

\* C3 witness: two copy clicks were made for "num"; both writes have resolved,
\* the second one when "num" was in the history already.
C3_Witness ==
    /\ lastEvent = "clipboardResolved"
    /\ copyTimers = 2
    /\ packageName = "num"
    /\ usedPackages = <<"num">> \o defaultPackages

\* C4: once the mount has loaded the history, the value stored under
\* usedPackages decodes to the history in memory, and after a theme toggle the
\* value stored under darkMode is "true" or "false" as the flag in memory is.
C4_StorageIsWriteThrough ==
    /\ mountPhase = "mounted" =>
          /\ getItem(localStorage, "usedPackages") # <<>>
          /\ JSONparse(getItem(localStorage, "usedPackages")[1]).ok
          /\ JSONparse(getItem(localStorage, "usedPackages")[1]).value = usedPackages
    /\ toggles > 0 =>
          getItem(localStorage, "darkMode") = <<IF isDarkMode THEN "true" ELSE "false">>

\* C4 witness: a package was added by a copy and the theme was toggled once.
C4_Witness ==
    /\ mountPhase = "mounted"
    /\ lastEvent = "clipboardResolved"
    /\ toggles = 1
    /\ usedPackages = <<"num">> \o defaultPackages

\* C5 as stated: with the list open and N suggestions, N ArrowDown presses in a
\* row bring the selected index back to where the run started, for every
\* start in [-1, N-1].
C5_DownCycleFromAnyStart ==
    (ListVisible /\ downRun = Len(suggestions) /\ downStart \in -1..(Len(suggestions) - 1))
        => selectedIndex = downStart

\* C5 as amended: with the list open and N suggestions, N ArrowDown presses in a
\* row bring the selected index back to where the run started for every start
\* in [0, N-1]; from the start -1 that typing sets they end on N-1.
C5_DownCycle ==
    (ListVisible /\ downRun = Len(suggestions))
        => /\ downStart \in 0..(Len(suggestions) - 1) => selectedIndex = downStart
           /\ downStart = -1 => selectedIndex = Len(suggestions) - 1

\* C5 witness: three suggestions, a run of three ArrowDown presses begun on index 1.
C5_Witness ==
    /\ ListVisible
    /\ Len(suggestions) = 3
    /\ downRun = 3
    /\ downStart = 1

\* C6 as stated: after the load, two theme toggles restore the flag and the
\* value stored under darkMode, be it unset, "true" or "false".
C6_ToggleTwiceRestoresAll ==
    (mountPhase = "mounted" /\ toggles = 2)
        => /\ isDarkMode = loadedTheme[1]
           /\ getItem(localStorage, "darkMode") = loadedTheme[2]

\* C6 as amended: after the load, two theme toggles restore the flag; the value
\* stored under darkMode is restored when it was "true" or "false", and when it
\* was unset it is "false", the string of the restored flag.
C6_ToggleTwiceRestores ==
    (mountPhase = "mounted" /\ toggles = 2)
        => /\ isDarkMode = loadedTheme[1]
           /\ loadedTheme[2] \in {<<"true">>, <<"false">>}
                 => getItem(localStorage, "darkMode") = loadedTheme[2]
           /\ loadedTheme[2] = <<>> => getItem(localStorage, "darkMode") = <<"false">>

\* C6 witness: nothing was stored under darkMode and the theme was toggled twice.
C6_Witness ==
    /\ mountPhase = "mounted"
    /\ toggles = 2
    /\ loadedTheme[2] = <<>>

\* the pairs of an upper-case letter and its lower-case letter, both ways round
CasePairs ==
    {<<CharAt(UpperLetters, i), CharAt(LowerLetters, i)>> : i \in 1..26}
    \cup {<<CharAt(LowerLetters, i), CharAt(UpperLetters, i)>> : i \in 1..26}

SameLetter(a, b) == a = b \/ <<a, b>> \in CasePairs

\* text occurs in entry at some offset, letters compared without their case
ContainsIgnoringCase(entry, text) ==
    \E off \in 0..(Len(entry) - Len(text)) :
        \A k \in 1..Len(text) : SameLetter(CharAt(entry, off + k), CharAt(text, k))

\* C7: the suggestions are the entries of the history, in history order, that
\* contain the input text as a case-insensitive substring and are not equal to
\* it; they are empty for an empty input, never hold the input text, and hold
\* no entry twice when the history holds none twice.
C7_SuggestionsAreTheMatches ==
    packageName # undefined =>
        /\ packageName = "" => suggestions = <<>>
        /\ packageName # "" =>
              suggestions = SelectSeq(usedPackages,
                  LAMBDA e : ContainsIgnoringCase(e, packageName) /\ e # packageName)
        /\ \A i \in 1..Len(suggestions) : suggestions[i] # packageName
        /\ NoDuplicates(usedPackages) => NoDuplicates(suggestions)

\* C7 witness: "NUM" typed over a history holding "num" and "numpy": both are
\* suggested, in history order, and "pandas" is not.
C7_Witness ==
    /\ packageName = "NUM"
    /\ usedPackages = <<"num", "pandas", "numpy">>
    /\ showSuggestions
    /\ suggestions = <<"num", "numpy">>

\* C8: a clipboard write that fails changes neither the history, nor the value
\* stored under usedPackages, nor the copy message flag, and schedules no timer.
C8_FailedWriteChangesNothing ==
    [][ (\E text \in PendingTexts : clipboardRejected(text))
        => UNCHANGED <<usedPackages, localStorage, showCopyMessage, copyTimers>> ]_vars

\* C8 witness: a write has just failed while another write is pending and the
\* input text is no longer the one it was clicked with.
C8_Witness ==
    /\ lastEvent = "clipboardRejected"
    /\ pendingWrites # EmptyBag
    /\ packageName = ""
    /\ ~showCopyMessage

\* C9: a write that succeeds while the input text is in the history leaves the
\* history as it is, order included, and the value stored under usedPackages too.
C9_AddOfPresentPackageIsIdempotent ==
    [][ (arrayIncludes(usedPackages, packageName)
            /\ \E text \in PendingTexts : clipboardResolved(text))
        => UNCHANGED <<usedPackages, localStorage>> ]_vars

\* C9 witness: a copy of "numpy", the second entry of the seeded history, has
\* just succeeded.
C9_Witness ==
    /\ lastEvent = "clipboardResolved"
    /\ packageName = "numpy"
    /\ usedPackages = defaultPackages
    /\ showCopyMessage

\* C10: the mount seeds the history with the default list, in its order, and
\* stores it when nothing is stored under usedPackages; it loads a stored list,
\* the empty one too, as it is and stores nothing.
C10_HistoryLoad ==
    [][ (mountPhase = "setup" /\ onMounted)
        => /\ getItem(localStorage, "usedPackages") = <<>>
                => /\ usedPackages' = <<"pandas", "numpy", "requests", "pillow", "flask">>
                   /\ getItem(localStorage', "usedPackages") =
                         <<"[\"pandas\",\"numpy\",\"requests\",\"pillow\",\"flask\"]">>
           /\ getItem(localStorage, "usedPackages") = <<"[]">>
                => (usedPackages' = <<>> /\ UNCHANGED localStorage)
           /\ getItem(localStorage, "usedPackages") = <<"[\"num\",\"pandas\",\"numpy\"]">>
                => (usedPackages' = <<"num", "pandas", "numpy">> /\ UNCHANGED localStorage)
      ]_vars

\* C10 witness: the mount has just loaded the empty list a session left behind.
C10_Witness ==
    /\ lastEvent = "onMounted"
    /\ mountPhase = "mounted"
    /\ usedPackages = <<>>
    /\ getItem(localStorage, "usedPackages") = <<"[]">>

\* C11: every clipboard write that succeeds shows the copy message; the message
\* is never shown in a state where no notification timer is pending; and, the
\* pending timers firing, a message that is shown is hidden later on.
C11_NotificationAutoClears ==
    /\ [][ (\E text \in PendingTexts : clipboardResolved(text)) => showCopyMessage' ]_vars
    /\ [](showCopyMessage => copyTimers > 0)
    /\ (showCopyMessage ~> ~showCopyMessage)

\* C11 witness: two copies have succeeded, both of their timers have fired, and
\* the message is hidden.
C11_Witness ==
    /\ lastEvent = "copyMessageTimeout"
    /\ gestures = 2
    /\ pendingWrites = EmptyBag
    /\ copyTimers = 0
    /\ ~showCopyMessage
    /\ usedPackages = <<"num">> \o defaultPackages

\* the base URLs of the mirror configuration, in its order
ConfiguredUrls == <<"https://mirrors.aliyun.com/pypi/simple",
                    "https://pypi.mirrors.ustc.edu.cn/simple",
                    "https://mirrors.cloud.tencent.com/pypi/simple/",
                    "https://mirror.sjtu.edu.cn/pypi/web/simple/">>

\* C12: one command is generated per configured mirror, in configuration order:
\* "pip install -i ", the URL of the mirror, a blank and the package name when
\* the name is not empty, the empty string when it is; and every text handed to
\* the clipboard is such a command of a name that was in the input.
C12_CommandPerMirror ==
    /\ Len(commands) = Len(ConfiguredUrls)
    /\ \A m \in 1..Len(ConfiguredUrls) :
          commands[m] = IF packageName \in {"", undefined} THEN ""
                        ELSE "pip install -i " \o ConfiguredUrls[m] \o " " \o packageName
    /\ \A text \in PendingTexts :
          \E m \in 1..Len(ConfiguredUrls), p \in KnownTexts \ {""} :
              text = "pip install -i " \o ConfiguredUrls[m] \o " " \o p

\* C12 witness: "numpy" is in the input and the command of the last mirror for
\* it was handed to the clipboard.
C12_Witness ==
    /\ packageName = "numpy"
    /\ BagIn("pip install -i https://mirror.sjtu.edu.cn/pypi/web/simple/ numpy", pendingWrites)
    /\ commands[4] = "pip install -i https://mirror.sjtu.edu.cn/pypi/web/simple/ numpy"

\* C13: whenever the suggestion list is rendered, the selected index lies within
\* -1 .. length-1 of the current suggestions, after a delete or a tag selection
\* made while the list is open too.
C13_SelectedIndexInRange ==
    ListVisible => selectedIndex \in -1..(Len(suggestions) - 1)

\* C14: whenever the suggestion list is not rendered, the selected index is -1;
\* an input event, a committing Enter, a click on a suggestion and Escape each
\* leave it at -1.
C14_ClosedMeansNoSelection ==
    /\ [](~ListVisible => selectedIndex = -1)
    /\ [][ (\/ \E text \in TypedTexts : handleInput(text)
            \/ handleKeydown("Enter") /\ ~showSuggestions'
            \/ handleKeydown("Escape")
            \/ \E i \in 1..Len(suggestions) : selectSuggestion(i))
           => selectedIndex' = -1 ]_vars

\* C15: Enter pressed with suggestions present and a selected index >= 0 makes
\* the input text the suggestion at that index, which is an entry of the
\* history, and closes the list.
C15_EnterCommitsHistoryEntry ==
    [][ (Len(suggestions) # 0 /\ selectedIndex >= 0 /\ handleKeydown("Enter"))
        => /\ selectedIndex < Len(suggestions)
           /\ packageName' = suggestions[selectedIndex + 1]
           /\ arrayIncludes(usedPackages, packageName')
           /\ ~showSuggestions'
      ]_vars

\* C16: the arrow keys change the selected index only when the suggestion list
\* is rendered; while it is closed or empty, ArrowDown, ArrowUp and Enter leave
\* the input text and the selected index as they are.
C16_KeysActOnlyOnOpenList ==
    [][ \A key \in {"ArrowDown", "ArrowUp", "Enter"} :
            (~ListVisible /\ handleKeydown(key))
                => UNCHANGED <<packageName, selectedIndex>>
      ]_vars

\* C17: Escape clears the show-suggestions flag in every state, the suggestion
\* list being empty or not; and the flag, once cleared, is set again by an
\* input event only, so that the list stays hidden until the next typing
\* whatever tag selections, deletes and copy completions come in between.
C17_EscapeCloses ==
    /\ [][ handleKeydown("Escape") => ~showSuggestions' ]_vars
    /\ [][ (~showSuggestions /\ showSuggestions')
               => \E text \in TypedTexts : handleInput(text) ]_vars

\* C18: while the timer of the latest successful copy is pending, which is
\* while any notification timer is pending, the copy message is shown: the
\* timer of an earlier copy does not hide the message of a later one.
C18_LatestCopyKeepsMessage ==
    copyTimers > 0 => showCopyMessage

\* C19: when a clipboard write succeeds, the package name of the command text
\* that was copied is in the history afterwards, whatever happened to the input
\* text while the write was pending.
C19_CopiedNameIsRegistered ==
    [][ \A text \in PendingTexts :
            clipboardResolved(text)
                => \E m \in 1..Len(mirrors), pkg \in SeqRange(usedPackages') :
                       text = "pip install -i " \o mirrors[m].url \o " " \o pkg
      ]_vars

\* C20: losing the focus schedules a delayed close: a list left open with the
\* input unfocused is hidden later on, unless the input has the focus again
\* first; and while the input has the focus, nothing but the Enter and Escape
\* keys closes the list, so that no close left over from an earlier blur hides
\* a list that typing has reopened.
C20_BlurClosesUnlessRefocused ==
    /\ ((~focused /\ showSuggestions) ~> (focused \/ ~showSuggestions))
    /\ [][ (focused /\ showSuggestions /\ ~showSuggestions')
               => (handleKeydown("Enter") \/ handleKeydown("Escape")) ]_vars

====
